---- MODULE Spec2Model ----
(***************************************************************************)
(* A model of the OpenSea floor monitor: the FloorTracker (floorTracker.ts), *)
(* the Notifier (floorTracker.ts, second half), the settings store          *)
(* (settingsManager.ts) and the listing handler of OpenSeaFloorMonitor      *)
(* (index.ts).                                                              *)
(*                                                                         *)
(* Numbers.  A normalized price is parseFloat(base_price) / 10^decimals.    *)
(* The model keeps it exactly, as an integer count of 10^-MaxDecimals       *)
(* token units; every price of the settings is in the same unit.  A         *)
(* percentage is kept as the fraction num/den the code divides, and         *)
(* compared by cross-multiplication, with the IEEE outcomes of a division   *)
(* by zero (NaN, +Infinity, -Infinity).  Rounding of doubles is not         *)
(* modelled.                                                                *)
(***************************************************************************)
EXTENDS Integers, Sequences, FiniteSets, TLC

\* ------------------------------------------------------------------ bounds

\* Largest decimal exponent of a payment token; the price unit is 10^-MaxDecimals.
MaxDecimals == 2
\* Number of FloorTracker calls in a run of SpecTracker.
MaxCalls == 3

\* Number of listing events delivered in a run of Spec.
MaxEvents == 2
\* Number of POST /api/settings requests in a run of Spec.
MaxSaves == 1
\* Listing events delivered in a burst to the monitor started without a settings file.
MaxBurst == 3
\* startListening and stopListening calls in a run of SpecListening.
MaxToggles == 3
\* addEvent calls in a run of SpecListening.
MaxListenedEvents == 3
\* addEvent calls in a run of SpecDashboard: enough to fill lastEvents and to
\* drop its oldest entries.
MaxAdds == 102

\* ---------------------------------------------------------------- constants

\* Entries addEvent keeps in botStatus.lastEvents.
MaxLastEvents == 100
\* Entries GET /api/events returns.
EventsPage == 50

\* ------------------------------------------------------------------ inputs

Slugs == {"c1", "c2"}
Decimals == {MaxDecimals - 1, MaxDecimals}
\* base_price strings that parse to these integers (smallest token unit).
BasePrices == {0, 94, 95, 96, 100}
UsdPrices == {2}
Timestamps == {7, 8}
Symbols == {"ETH"}
\* thresholdPercent values handed to isUndercut.
Thresholds == {-5, 0, 5}

\* The fields of ListingEvent.payload the tracker reads (types.ts).
\* Every price is listed at the first timestamp, the RelistedPrices at the later
\* ones too.
RelistedPrices == {95}
TrackerEvents ==
    {e \in [base_price : BasePrices, decimals : Decimals, usd_price : UsdPrices,
            event_timestamp : Timestamps, symbol : Symbols] :
        \/ \A t \in Timestamps : e.event_timestamp <= t
        \/ e.base_price \in RelistedPrices}

\* The events isUndercut is called with: it reads base_price and decimals only.
UndercutEvents == {e \in TrackerEvents : \A t \in Timestamps : e.event_timestamp <= t}

RECURSIVE Pow10(_)
Pow10(n) == IF n = 0 THEN 1 ELSE 10 * Pow10(n - 1)

\* n hundredths of a token, in price units (MaxDecimals >= 2).
Hundredths(n) == n * Pow10(MaxDecimals - 2)

\* The listing events the stream delivers to the monitor: the collection slug and
\* the payload fields the handler and the tracker read.
MonitorSlugs == {"c1"}
\* <<base_price, decimals>>: listings at 0.94, 0.95 and 1.00 token, the last one
\* also with one decimal less.
MonitorPrices ==
    {<<Hundredths(94), MaxDecimals>>, <<Hundredths(95), MaxDecimals>>,
     <<Hundredths(100), MaxDecimals>>, <<Pow10(MaxDecimals - 1), MaxDecimals - 1>>}
\* event_timestamp of the listings the stream delivers.
MonitorTimestamps == {7}
MonitorEvents ==
    {[slug |-> s, base_price |-> p[1], decimals |-> p[2], usd_price |-> u,
      event_timestamp |-> t, symbol |-> y] :
        s \in MonitorSlugs, p \in MonitorPrices, u \in UsdPrices,
        t \in MonitorTimestamps, y \in Symbols}

\* BotSettings (settingsManager.ts).  An optional field is the empty set when it
\* is undefined and the singleton of its value otherwise.  SavedValues are the
\* values a request body can give a key: JSON carries no undefined.
SavedValues ==
    [enablePriceTriggerAlerts |-> BOOLEAN,
     priceAlertMin |-> {{Hundredths(100)}},
     priceAlertMax |-> {{Hundredths(94)}},
     minFloorPrice |-> {{Hundredths(95)}},
     maxFloorPrice |-> {{Hundredths(94)}, {0}},
     enableFloorUpdateAlerts |-> {{TRUE}, {FALSE}},
     undercutThresholdPercent |-> {0, 5}]
SettingsSpace ==
    [enablePriceTriggerAlerts : SavedValues.enablePriceTriggerAlerts,
     priceAlertMin : SavedValues.priceAlertMin \cup {{}},
     priceAlertMax : SavedValues.priceAlertMax \cup {{}},
     minFloorPrice : SavedValues.minFloorPrice \cup {{}},
     maxFloorPrice : (SavedValues.maxFloorPrice \ {{0}}) \cup {{}},
     enableFloorUpdateAlerts : SavedValues.enableFloorUpdateAlerts \cup {{}},
     undercutThresholdPercent : SavedValues.undercutThresholdPercent]

\* NotificationConfig (types.ts): which credentials are configured.
NotificationConfigs ==
    [discordWebhook : BOOLEAN, telegramBotToken : BOOLEAN, telegramChatId : BOOLEAN]

\* What an outbound request ends with: a response with a status code (0: no
\* status code), or a transport error.
StatusCodes == {0, 199, 200, 299, 300}
Responses == [kind : {"response"}, statusCode : StatusCodes]
                 \cup {[kind |-> "error", statusCode |-> 0]}

VARIABLES
    floors,     \* FloorTracker.floors: slug -> FloorData, a key per established floor
    seen,       \* history: slug -> normalized prices applied since creation / last clear
    origin,     \* history: slug -> the event that first reached the lowest price applied
                \* since the collection was last cleared (a set of at most one)
    snapshot,   \* the object a caller got from getAllFloors: copy is slug -> record,
                \* shared the slugs whose record is the very object the tracker holds
    call,       \* the last FloorTracker call made directly, and what it returned (for
                \* clearFloor, updated tells whether there was a record to remove)
    ncalls,     \* number of FloorTracker calls made directly
    settings,   \* SettingsManager.settings
    config,     \* OpenSeaFloorMonitor.config: undercutThresholdPercent, notifications
    handlers,   \* arrival index -> the handleListingEvent call awaiting a response
    last,       \* the handleListingEvent call that settled last
    arrived,    \* number of listing events delivered
    applied,    \* history: arrival indices, in the order their updateFloor was applied
    saves,      \* number of POST /api/settings requests served
    listener,   \* OpenSeaFloorMonitor: config.collections, isListening, the client (the
                \* number of clients created before it), the listing subscriptions made
                \* (client and slug), the last startListening/stopListening call
    web         \* WebServer.botStatus: isRunning, lastEvents; added counts addEvent calls

trackerVars == <<floors, seen, origin, snapshot, call, ncalls>>
monitorVars == <<settings, config, handlers, last, arrived, applied, saves, listener, web>>
vars == <<floors, seen, origin, snapshot, call, ncalls, settings, config, handlers, last, arrived, applied, saves,
         listener, web>>

\* ------------------------------------------------------------ FloorTracker

\* parseFloat(base_price) / Math.pow(10, payment_token.decimals), in price units.
NormalizedPrice(e) == e.base_price * Pow10(MaxDecimals - e.decimals)

\* A quotient num/den as the code computes it.
Quotient(n, d) == [num |-> n, den |-> d]
Zero == Quotient(0, 1)

\* q >= t for a double q = num/den: NaN (0/0) compares false, +Infinity true,
\* -Infinity false.
QuotientGE(q, t) ==
    IF q.den > 0 THEN q.num >= t * q.den
    ELSE IF q.den < 0 THEN q.num <= t * q.den
    ELSE q.num > 0

getFloor(fl, slug) == IF slug \in DOMAIN fl THEN {fl[slug]} ELSE {}

FloorDataOf(e) ==
    [price |-> NormalizedPrice(e),
     priceUSD |-> NormalizedPrice(e) * e.usd_price,
     timestamp |-> e.event_timestamp,
     tokenSymbol |-> e.symbol]

updateFloor_DropsOthers(fl, slug, e) ==
    IF slug \notin DOMAIN fl \/ NormalizedPrice(e) < fl[slug].price
    THEN [floors |-> [s \in {slug} |-> FloorDataOf(e)], ret |-> TRUE]
    ELSE [floors |-> fl, ret |-> FALSE]

updateFloor_ReplacesOnEqual(fl, slug, e) ==
    IF slug \notin DOMAIN fl \/ NormalizedPrice(e) <= fl[slug].price
    THEN [floors |-> [s \in DOMAIN fl \cup {slug} |->
                        IF s = slug THEN FloorDataOf(e) ELSE fl[s]],
          ret |-> TRUE]
    ELSE [floors |-> fl, ret |-> FALSE]

updateFloor_KeepsHighest(fl, slug, e) ==
    IF slug \notin DOMAIN fl \/ NormalizedPrice(e) > fl[slug].price
    THEN [floors |-> [s \in DOMAIN fl \cup {slug} |->
                        IF s = slug THEN FloorDataOf(e) ELSE fl[s]],
          ret |-> TRUE]
    ELSE [floors |-> fl, ret |-> FALSE]

\* updateFloor: the floors afterwards and the returned flag.
updateFloor(fl, slug, e) ==
    IF slug \notin DOMAIN fl \/ NormalizedPrice(e) < fl[slug].price
    THEN [floors |-> [s \in DOMAIN fl \cup {slug} |->
                        IF s = slug THEN FloorDataOf(e) ELSE fl[s]],
          ret |-> TRUE]
    ELSE [floors |-> fl, ret |-> FALSE]

isUndercut_Magnitude(fl, slug, e, thresholdPercent) ==
    IF slug \notin DOMAIN fl
    THEN [isUndercut |-> FALSE,
          listingPrice |-> NormalizedPrice(e), floorPrice |-> 0, percentBelow |-> Zero]
    ELSE LET diff == fl[slug].price - NormalizedPrice(e)
             percentBelow == Quotient((IF diff < 0 THEN -diff ELSE diff) * 100,
                                      fl[slug].price)
         IN [isUndercut |-> QuotientGE(percentBelow, thresholdPercent),
             listingPrice |-> NormalizedPrice(e),
             floorPrice |-> fl[slug].price,
             percentBelow |-> percentBelow]

isUndercut_NoFloorCompares(fl, slug, e, thresholdPercent) ==
    IF slug \notin DOMAIN fl
    THEN [isUndercut |-> QuotientGE(Zero, thresholdPercent),
          listingPrice |-> NormalizedPrice(e), floorPrice |-> 0, percentBelow |-> Zero]
    ELSE LET percentBelow ==
                 Quotient((fl[slug].price - NormalizedPrice(e)) * 100, fl[slug].price)
         IN [isUndercut |-> QuotientGE(percentBelow, thresholdPercent),
             listingPrice |-> NormalizedPrice(e),
             floorPrice |-> fl[slug].price,
             percentBelow |-> percentBelow]

isUndercut_Strict(fl, slug, e, thresholdPercent) ==
    IF slug \notin DOMAIN fl
    THEN [isUndercut |-> FALSE,
          listingPrice |-> NormalizedPrice(e), floorPrice |-> 0, percentBelow |-> Zero]
    ELSE LET percentBelow ==
                 Quotient((fl[slug].price - NormalizedPrice(e)) * 100, fl[slug].price)
         IN [isUndercut |-> QuotientGE(percentBelow, thresholdPercent)
                            /\ percentBelow.num # thresholdPercent * percentBelow.den,
             listingPrice |-> NormalizedPrice(e),
             floorPrice |-> fl[slug].price,
             percentBelow |-> percentBelow]

isUndercut(fl, slug, e, thresholdPercent) ==
    IF slug \notin DOMAIN fl
    THEN [isUndercut |-> FALSE,
          listingPrice |-> NormalizedPrice(e), floorPrice |-> 0, percentBelow |-> Zero]
    ELSE LET percentBelow ==
                 Quotient((fl[slug].price - NormalizedPrice(e)) * 100, fl[slug].price)
         IN [isUndercut |-> QuotientGE(percentBelow, thresholdPercent),
             listingPrice |-> NormalizedPrice(e),
             floorPrice |-> fl[slug].price,
             percentBelow |-> percentBelow]

clearFloor_All(fl, slug) == [s \in {} |-> fl[s]]

\* delete this.floors[collectionSlug]
clearFloor(fl, slug) == [s \in DOMAIN fl \ {slug} |-> fl[s]]

NoFloors == [s \in {} |-> 0]
\* No getAllFloors result is held.
NoSnapshot == [held |-> FALSE, copy |-> NoFloors, shared |-> {}]
NoVerdict == [isUndercut |-> FALSE, listingPrice |-> 0, floorPrice |-> 0,
              percentBelow |-> Zero]
NoEvent == [base_price |-> 0, decimals |-> MaxDecimals, usd_price |-> 0,
            event_timestamp |-> 0, symbol |-> ""]
NoCall == [op |-> "new", slug |-> "", event |-> NoEvent, threshold |-> 0,
           updated |-> FALSE, verdict |-> NoVerdict]

\* ------------------------------------------------------------ Notifier

Resolves_AnyStatus(r) == r.kind = "response" /\ r.statusCode # 0

\* makeHttpsRequest resolves exactly on a response whose status is 2xx.
Resolves(r) == r.kind = "response" /\ r.statusCode # 0
               /\ r.statusCode >= 200 /\ r.statusCode < 300

DiscordEnabled(n) == n.discordWebhook
TelegramEnabled_TokenOnly(n) == n.telegramBotToken

TelegramEnabled(n) == n.telegramBotToken /\ n.telegramChatId

\* A running handleListingEvent call with the tracker state it works on:
\* m.h is the call (event, settings snapshot, position, history), m.floors the
\* FloorTracker's floors, m.applied the order of the updateFloor calls so far.
Log(m, what, arg) == [m EXCEPT !.h.log = Append(@, <<what, arg>>)]

\* The Telegram part of sendUndercutAlert / sendPriceTriggerAlert: the request is
\* sent and awaited, or the channel is skipped and the alert is sent.
SendTelegram(m, n) ==
    IF TelegramEnabled(n)
    THEN [Log(m, "telegram", m.h.alert) EXCEPT !.h.pc = "await_telegram"]
    ELSE [m EXCEPT !.h.pc = "sent"]

\* The Discord part, which comes first.
SendDiscord(m, n) ==
    IF DiscordEnabled(n)
    THEN [Log(m, "discord", m.h.alert) EXCEPT !.h.pc = "await_discord"]
    ELSE SendTelegram(m, n)

\* sendUndercutAlert / sendPriceTriggerAlert up to its first await: the console
\* block, then the channels in turn.
SendAlert(m, n, intent) ==
    SendDiscord(Log([m EXCEPT !.h.alert = intent.type,
                              !.h.alerts = Append(@, intent)],
                    "console", intent.type), n)

\* sendFloorUpdateAlert: the console block only.
sendFloorUpdateAlert(m, intent) ==
    Log([m EXCEPT !.h.alerts = Append(@, intent)], "console", intent.type)

\* ------------------------------------------------- OpenSeaFloorMonitor

Intent(type, listingPrice, floorPrice, percentBelow, tokenSymbol, reason) ==
    [type |-> type, listingPrice |-> listingPrice, floorPrice |-> floorPrice,
     percentBelow |-> percentBelow, tokenSymbol |-> tokenSymbol, reason |-> reason]

PriceTriggerReason_MinWins(st, listingPrice) ==
    LET belowMin == \E b \in st.priceAlertMin : listingPrice < b
        aboveMax == \E b \in st.priceAlertMax : listingPrice > b
    IN IF belowMin THEN "Below min" ELSE IF aboveMax THEN "Above max" ELSE ""

PriceTriggerReason_NonStrict(st, listingPrice) ==
    LET belowMin == \E b \in st.priceAlertMin : listingPrice <= b
        aboveMax == \E b \in st.priceAlertMax : listingPrice >= b
    IN IF aboveMax THEN "Above max" ELSE IF belowMin THEN "Below min" ELSE ""

\* The price-trigger checks of the handler: "" when no bound is crossed, else the
\* reason, the max check overwriting the min check.
PriceTriggerReason(st, listingPrice) ==
    LET belowMin == \E b \in st.priceAlertMin : listingPrice < b
        aboveMax == \E b \in st.priceAlertMax : listingPrice > b
    IN IF aboveMax THEN "Above max" ELSE IF belowMin THEN "Below min" ELSE ""

LegacyModeActive_Always(st) == TRUE

\* The guard of the legacy undercut block.
LegacyModeActive(st) == ~st.enablePriceTriggerAlerts

\* The min/max floor price filters: a bound that is undefined or 0 is no bound.
FloorFiltered(st, floorPrice) ==
    \/ \E b \in st.minFloorPrice : b # 0 /\ floorPrice < b
    \/ \E b \in st.maxFloorPrice : b # 0 /\ floorPrice > b

FloorAlertsEnabled_Live(st) == FALSE \notin settings.enableFloorUpdateAlerts

FloorAlertsEnabled_WhenSet(st) == TRUE \in st.enableFloorUpdateAlerts

\* settings.enableFloorUpdateAlerts !== false: undefined counts as enabled.
FloorAlertsEnabled(st) == FALSE \notin st.enableFloorUpdateAlerts

Settle(m, pc) == [m EXCEPT !.h.pc = pc]

\* The handler from "Update floor price" to its end.
UpdateFloorStep(m) ==
    LET e == m.h.event
        u == updateFloor(m.floors, e.slug, e)
        m1 == Log([m EXCEPT !.floors = u.floors,
                            !.applied = Append(@, m.h.id)],
                  "updateFloor", IF u.ret THEN "true" ELSE "false")
    IN IF ~u.ret THEN Settle(m1, "done")
       ELSE LET newFloor == getFloor(u.floors, e.slug)
                m2 == IF newFloor = {} THEN m1
                      ELSE LET f == CHOOSE x \in newFloor : TRUE
                               m3 == IF FloorAlertsEnabled(m1.h.settings)
                                     THEN sendFloorUpdateAlert(m1,
                                            Intent("floor_update", 0, f.price, Zero,
                                                   f.tokenSymbol, ""))
                                     ELSE m1
                           IN Log(m3, "addEvent", "floor_update")
            IN Settle(Log(m2, "updateBotStatus", "floors"), "done")

\* The handler after sendUndercutAlert has resolved.
AfterUndercutAlert(m) == UpdateFloorStep(Log(m, "addEvent", "undercut"))

\* The legacy undercut block and what follows it.
LegacyStep(m, cfg) ==
    IF ~LegacyModeActive(m.h.settings) THEN UpdateFloorStep(m)
    ELSE LET e == m.h.event
             v == isUndercut(m.floors, e.slug, e, cfg.undercutThresholdPercent)
             m1 == Log([m EXCEPT !.h.verdict = {v}], "isUndercut", "")
         IN IF ~v.isUndercut THEN UpdateFloorStep(m1)
            ELSE IF FloorFiltered(m1.h.settings, v.floorPrice)
            THEN Settle(Log(m1, "return", "filtered"), "done")
            ELSE LET m2 == SendAlert(m1, cfg.notifications,
                                     Intent("undercut", v.listingPrice, v.floorPrice,
                                            v.percentBelow, e.symbol, ""))
                 IN IF m2.h.pc = "sent" THEN AfterUndercutAlert(m2) ELSE m2

\* The handler after sendPriceTriggerAlert has resolved.
AfterPriceAlert(m, cfg) == LegacyStep(Log(m, "addEvent", "price_alert"), cfg)

\* The price-trigger block and what follows it.
PriceTriggerStep(m, cfg) ==
    LET e == m.h.event
        reason == PriceTriggerReason(m.h.settings, NormalizedPrice(e))
    IN IF m.h.settings.enablePriceTriggerAlerts /\ reason # ""
       THEN LET m1 == SendAlert(m, cfg.notifications,
                                Intent("price_alert", NormalizedPrice(e), 0, Zero,
                                       e.symbol, reason))
            IN IF m1.h.pc = "sent" THEN AfterPriceAlert(m1, cfg) ELSE m1
       ELSE LegacyStep(m, cfg)

\* handleListingEvent from its start to its first pending request, or to its end.
handleListingEvent(m, cfg) == PriceTriggerStep(Log(m, "addEvent", "listing"), cfg)

Resume_RetriesOnce(m, cfg, r) ==
    LET ch == IF m.h.pc = "await_discord" THEN "discord" ELSE "telegram"
        sends == {k \in 1..Len(m.h.log) : m.h.log[k][1] = ch}
    IN IF ~Resolves(r)
       THEN IF Cardinality(sends) < 2
            THEN Log(Log(m, "error", ch), ch, m.h.alert)
            ELSE Settle(Log(Log(m, "error", ch), "rejected", ch), "rejected")
       ELSE LET m1 == Log(m, "resolved", ch)
                m2 == IF ch = "discord" THEN SendTelegram(m1, cfg.notifications)
                      ELSE Settle(m1, "sent")
            IN IF m2.h.pc # "sent" THEN m2
               ELSE IF m2.h.alert = "undercut" THEN AfterUndercutAlert(m2)
               ELSE AfterPriceAlert(m2, cfg)

\* The handler when the request it awaits ends with r.
Resume(m, cfg, r) ==
    LET ch == IF m.h.pc = "await_discord" THEN "discord" ELSE "telegram"
    IN IF ~Resolves(r)
       THEN Settle(Log(Log(m, "error", ch), "rejected", ch), "rejected")
       ELSE LET m1 == Log(m, "resolved", ch)
                m2 == IF ch = "discord" THEN SendTelegram(m1, cfg.notifications)
                      ELSE Settle(m1, "sent")
            IN IF m2.h.pc # "sent" THEN m2
               ELSE IF m2.h.alert = "undercut" THEN AfterUndercutAlert(m2)
               ELSE AfterPriceAlert(m2, cfg)

\* The monitor as constructed, before start(): not listening, the first client,
\* no subscription.  In Spec the collections are MonitorSlugs.
NoListener ==
    [collections |-> <<"c1">>, isListening |-> FALSE, client |-> 0, subs |-> <<>>,
     op |-> "none", calls |-> 0]
\* WebServer.botStatus as constructed.
NoBotStatus ==
    [isRunning |-> FALSE, collections |-> <<>>, floors |-> NoFloors,
     lastEvents |-> <<>>, added |-> 0]

NoNotifications ==
    [discordWebhook |-> FALSE, telegramBotToken |-> FALSE, telegramChatId |-> FALSE]
\* The settings loadSettings returns without a settings file.
DefaultSettings ==
    [enablePriceTriggerAlerts |-> FALSE, priceAlertMin |-> {}, priceAlertMax |-> {},
     minFloorPrice |-> {}, maxFloorPrice |-> {}, enableFloorUpdateAlerts |-> {TRUE},
     undercutThresholdPercent |-> 0]
NoMonitorEvent ==
    [slug |-> "", base_price |-> 0, decimals |-> MaxDecimals, usd_price |-> 0,
     event_timestamp |-> 0, symbol |-> ""]
NoHandler ==
    [id |-> 0, event |-> NoMonitorEvent, settings |-> DefaultSettings, pc |-> "none",
     alert |-> "", log |-> <<>>, alerts |-> <<>>, verdict |-> {}]
NoHandlers == [i \in {} |-> NoHandler]

Settled(h) == h.pc \in {"done", "rejected"}

Init ==
    /\ floors = NoFloors
    /\ seen = [s \in Slugs |-> {}]
    /\ origin = [s \in Slugs |-> {}]
    /\ snapshot = NoSnapshot
    /\ call = NoCall
    /\ ncalls = 0
    /\ settings \in SettingsSpace
    /\ \E n \in NotificationConfigs :
          config = [undercutThresholdPercent |-> settings.undercutThresholdPercent,
                    notifications |-> n]
    /\ handlers = NoHandlers
    /\ last = NoHandler
    /\ arrived = 0
    /\ applied = <<>>
    /\ saves = 0
    /\ listener = NoListener
    /\ web = NoBotStatus

\* What a step of handler m.h leaves behind.
Commit(m) ==
    /\ floors' = m.floors
    /\ applied' = m.applied
    /\ IF Settled(m.h)
       THEN /\ last' = m.h
            /\ handlers' = [i \in DOMAIN handlers \ {m.h.id} |-> handlers[i]]
       ELSE /\ last' = last
            /\ handlers' = [i \in DOMAIN handlers \cup {m.h.id} |->
                              IF i = m.h.id THEN m.h ELSE handlers[i]]

\* The stream delivers a listing event, one of at most n: the onItemListed
\* callback runs handleListingEvent up to its first pending request.
DeliverUpTo(n, e) ==
    /\ arrived < n
    /\ arrived' = arrived + 1
    /\ Commit(handleListingEvent(
           [floors |-> floors, applied |-> applied,
            h |-> [NoHandler EXCEPT !.id = arrived + 1, !.event = e,
                                    !.settings = settings, !.pc = "running"]],
           config))
    /\ UNCHANGED <<seen, origin, snapshot, call, ncalls, settings, config, saves,
                   listener, web>>

Deliver(e) == DeliverUpTo(MaxEvents, e)

\* The request handler i awaits ends with r, and the handler runs on.
Respond(i, r) ==
    /\ i \in DOMAIN handlers
    /\ Commit(Resume([floors |-> floors, applied |-> applied,
                      h |-> handlers[i]], config, r))
    /\ UNCHANGED <<seen, origin, snapshot, call, ncalls, settings, config, arrived, saves,
                   listener, web>>

\* POST /api/settings with a body of one key: saveSettings merges it.
SaveSettings(k, v) ==
    /\ saves < MaxSaves
    /\ saves' = saves + 1
    /\ settings' = [settings EXCEPT ![k] = v]
    /\ UNCHANGED <<floors, seen, origin, snapshot, call, ncalls, config, handlers, last,
                   arrived, applied, listener, web>>

\* The monitor with a settings store nobody writes to after start-up.
Next ==
    \/ \E e \in MonitorEvents : Deliver(e)
    \/ \E i \in 1..MaxEvents, r \in Responses : Respond(i, r)

Spec == Init /\ [][Next]_vars

\* The monitor started without a settings file, with the dashboard writing to the
\* settings store.
InitSettings ==
    /\ Init
    /\ settings \in {[DefaultSettings EXCEPT !.undercutThresholdPercent = t] :
                        t \in SavedValues.undercutThresholdPercent}

NextSettings ==
    \/ Next
    \/ \E k \in DOMAIN SavedValues : \E v \in SavedValues[k] : SaveSettings(k, v)

SpecSettings == InitSettings /\ [][NextSettings]_vars

\* The monitor started without a settings file, the store left alone, with a
\* longer burst of listings.
NextBurst ==
    \/ \E e \in MonitorEvents : DeliverUpTo(MaxBurst, e)
    \/ \E i \in 1..MaxBurst, r \in Responses : Respond(i, r)

SpecBurst == InitSettings /\ [][NextBurst]_vars

\* ------------------------------------------------- claims on the monitor

\* Every handleListingEvent call the state remembers: those awaiting a response
\* and the one that settled last.
Calls == {handlers[i] : i \in DOMAIN handlers} \cup (IF last.pc = "none" THEN {} ELSE {last})

Logged(h, what, arg) == \E k \in 1..Len(h.log) : h.log[k] = <<what, arg>>
Produced(h, type) == \E k \in 1..Len(h.alerts) : h.alerts[k].type = type
UpdateFloorApplied(h) == Logged(h, "updateFloor", "true") \/ Logged(h, "updateFloor", "false")
SendFailed(h) == Logged(h, "rejected", "discord") \/ Logged(h, "rejected", "telegram")

\* The floor price lies outside the band the settings configure.
OutsideBand(st, floorPrice) ==
    \/ \E b \in st.minFloorPrice : floorPrice < b
    \/ \E b \in st.maxFloorPrice : floorPrice > b

\* The call flagged an undercut whose floor price is outside the band.
DroppedUndercut(h) ==
    /\ ~h.settings.enablePriceTriggerAlerts
    /\ \E v \in h.verdict : v.isUndercut /\ OutsideBand(h.settings, v.floorPrice)

\* C2: with price-trigger alerts disabled, an event flagged as an undercut whose
\* floor price is outside the minFloorPrice/maxFloorPrice band produces no undercut
\* alert, and updateFloor is still applied for it: once it is handled the floor of
\* its collection is at most its price.
C2_DroppedUndercutStillUpdatesFloor ==
    \A h \in Calls :
        (Settled(h) /\ DroppedUndercut(h)) =>
            /\ ~Produced(h, "undercut")
            /\ h.event.slug \in DOMAIN floors
            /\ floors[h.event.slug].price <= NormalizedPrice(h.event)

\* C3: with both channels configured, a failed Discord send of an alert is followed
\* by the Telegram send of the same alert.
C3_TelegramAttemptedAfterDiscordFailure ==
    \A h \in Calls :
        (DiscordEnabled(config.notifications) /\ TelegramEnabled(config.notifications)
         /\ Logged(h, "rejected", "discord")) =>
            Logged(h, "telegram", h.alert)

\* C4: a failed send never keeps the event's updateFloor from being applied: once
\* an event one of whose sends failed is handled, the floor of its collection is
\* at most its price, as it is when every send succeeds.
C4_FailedSendStillUpdatesFloor ==
    \A h \in Calls :
        (Settled(h) /\ SendFailed(h)) =>
            /\ h.event.slug \in DOMAIN floors
            /\ floors[h.event.slug].price <= NormalizedPrice(h.event)

\* The same with every send succeeding: the floor is at most the price of every
\* event that was handled without a failed send and without a dropped undercut.
FloorUpdatedWithoutFailure ==
    \A h \in Calls :
        (Settled(h) /\ ~SendFailed(h) /\ ~DroppedUndercut(h)) =>
            /\ h.event.slug \in DOMAIN floors
            /\ floors[h.event.slug].price <= NormalizedPrice(h.event)

\* C5: handleListingEvent never rejects, whatever its sends end with.
C5_HandlerNeverRejects ==
    \A h \in Calls : h.pc # "rejected"

\* C6: the updateFloor calls are applied in the order the events arrived.
C6_AppliedInArrivalOrder ==
    \A j, k \in 1..Len(applied) : j < k => applied[j] < applied[k]

\* C7: no outbound send of an event starts before the event's updateFloor has
\* been applied.
C7_FloorUpdatedBeforeDispatch ==
    \A h \in Calls :
        \A k \in 1..Len(h.log) :
            h.log[k][1] \in {"discord", "telegram"} =>
                \E j \in 1..(k - 1) : h.log[j][1] = "updateFloor"

\* C8: the alert modes exclude each other, per event and by the settings the
\* event was handled with: with enablePriceTriggerAlerts set no undercut verdict
\* is evaluated and no undercut alert produced, without it no price-trigger alert
\* is produced; no event yields both alerts.
C8_AlertModesExclusive ==
    \A h \in Calls :
        /\ h.settings.enablePriceTriggerAlerts =>
              /\ ~Produced(h, "undercut")
              /\ h.verdict = {}
              /\ ~Logged(h, "isUndercut", "")
        /\ ~h.settings.enablePriceTriggerAlerts => ~Produced(h, "price_alert")
        /\ ~(Produced(h, "price_alert") /\ Produced(h, "undercut"))

\* A price-trigger alert was delivered on a channel and the handler ran on to
\* update the floor, while a floor was in place that the listing undercuts.
C8_Witness ==
    /\ last.pc = "done"
    /\ last.settings.enablePriceTriggerAlerts
    /\ Produced(last, "price_alert")
    /\ Logged(last, "resolved", "discord")
    /\ Logged(last, "updateFloor", "true")
    /\ last.id = 2

\* An undercut alert was produced in the legacy mode although a price bound of
\* the settings is crossed.
C8_WitnessLegacy ==
    /\ last.pc = "done"
    /\ ~last.settings.enablePriceTriggerAlerts
    /\ Produced(last, "undercut")
    /\ PriceTriggerReason(last.settings, NormalizedPrice(last.event)) # ""

\* ----------------------------------------------- FloorTracker, called directly

InitTracker ==
    /\ floors = NoFloors
    /\ seen = [s \in Slugs |-> {}]
    /\ origin = [s \in Slugs |-> {}]
    /\ snapshot = NoSnapshot
    /\ call = NoCall
    /\ ncalls = 0
    /\ settings = DefaultSettings
    /\ config = [undercutThresholdPercent |-> 0, notifications |-> NoNotifications]
    /\ handlers = NoHandlers
    /\ last = NoHandler
    /\ arrived = 0
    /\ applied = <<>>
    /\ saves = 0
    /\ listener = NoListener
    /\ web = NoBotStatus

TUpdateFloor(slug, e) ==
    /\ ncalls < MaxCalls
    /\ floors' = updateFloor(floors, slug, e).floors
    /\ seen' = [seen EXCEPT ![slug] = @ \cup {NormalizedPrice(e)}]
    /\ origin' = [origin EXCEPT ![slug] =
                     IF \A p \in seen[slug] : NormalizedPrice(e) < p THEN {e} ELSE @]
    /\ snapshot' = IF updateFloor(floors, slug, e).ret
                   THEN [snapshot EXCEPT !.shared = @ \ {slug}]
                   ELSE snapshot
    /\ call' = [NoCall EXCEPT !.op = "updateFloor", !.slug = slug, !.event = e,
                              !.updated = updateFloor(floors, slug, e).ret]
    /\ ncalls' = ncalls + 1
    /\ UNCHANGED monitorVars

TClearFloor(slug) ==
    /\ ncalls < MaxCalls
    /\ floors' = clearFloor(floors, slug)
    /\ seen' = [seen EXCEPT ![slug] = {}]
    /\ origin' = [origin EXCEPT ![slug] = {}]
    /\ snapshot' = [snapshot EXCEPT !.shared = @ \ {slug}]
    /\ call' = [NoCall EXCEPT !.op = "clearFloor", !.slug = slug,
                              !.updated = slug \in DOMAIN floors]
    /\ ncalls' = ncalls + 1
    /\ UNCHANGED monitorVars

TIsUndercut(slug, e, t) ==
    /\ call' = [NoCall EXCEPT !.op = "isUndercut", !.slug = slug, !.event = e,
                              !.threshold = t,
                              !.verdict = isUndercut(floors, slug, e, t)]
    /\ ncalls < MaxCalls
    /\ ncalls' = ncalls + 1
    /\ UNCHANGED <<floors, seen, origin, snapshot>>
    /\ UNCHANGED monitorVars

NextTracker ==
    \/ \E slug \in Slugs, e \in TrackerEvents : TUpdateFloor(slug, e)
    \/ \E slug \in Slugs : TClearFloor(slug)
    \/ \E slug \in Slugs, e \in UndercutEvents, t \in Thresholds : TIsUndercut(slug, e, t)

SpecTracker == InitTracker /\ [][NextTracker]_vars

\* ------------------------------------------------------------------ claims

SetMin(S) == CHOOSE m \in S : \A x \in S : m <= x

FloorIsMinimum ==
    \A s \in Slugs :
        /\ (s \in DOMAIN floors) <=> (seen[s] # {})
        /\ s \in DOMAIN floors => floors[s].price = SetMin(seen[s])

FloorNeverIncreases ==
    \A s \in Slugs :
        (s \in DOMAIN floors /\ s \in DOMAIN floors') => floors'[s].price <= floors[s].price

\* C1: after every updateFloor call the stored floor price of a collection is the
\* minimum normalized price of all events applied to it since the tracker was
\* created or the collection last cleared (a record exists exactly when an event
\* has been applied), and while a record stays in place no call raises its price.
C1_FloorIsRunningMinimum == []FloorIsMinimum /\ [][FloorNeverIncreases]_vars

\* A state in which a collection's floor was lowered by a later, cheaper event
\* after a dearer one had been refused.
C1_Witness ==
    \E s \in Slugs :
        /\ Cardinality(seen[s]) = 3
        /\ call.op = "updateFloor" /\ call.slug = s /\ call.updated
        /\ floors[s].price < 94 * Pow10(MaxDecimals - 1)

\* 1.0 token, in price units.
OneToken == Pow10(MaxDecimals)

\* C9: isUndercut on a collection without a floor record returns isUndercut =
\* FALSE, floorPrice = 0 and percentBelow = 0, whatever the listing price and the
\* threshold (thresholds <= 0 included).
C9_NoFloorNeverUndercut ==
    (call.op = "isUndercut" /\ call.slug \notin DOMAIN floors) =>
        /\ call.verdict.isUndercut = FALSE
        /\ call.verdict.floorPrice = 0
        /\ call.verdict.percentBelow.num = 0 /\ call.verdict.percentBelow.den # 0
        /\ call.verdict.listingPrice = NormalizedPrice(call.event)

\* isUndercut was called with a negative threshold and a positive listing price
\* on a collection that has no floor, while the other collection has one.
C9_Witness ==
    /\ call.op = "isUndercut" /\ call.slug \notin DOMAIN floors
    /\ DOMAIN floors # {}
    /\ call.threshold < 0
    /\ NormalizedPrice(call.event) > 0

\* C10: with a floor record f > 0 in place, isUndercut flags the listing l exactly
\* when (f - l) / f * 100 >= threshold, that is when 100 * l <= (100 - threshold) * f:
\* at the threshold exactly and above it, not below it.  With floor 1.0 and
\* threshold 5 a listing at 0.94 (6 % below) and at 0.95 (5 % below) is an
\* undercut and one at 0.96 (4 % below) is not.  A floor of 0 makes the percentage
\* NaN or -Infinity, which reaches no threshold.  The verdict reports the current
\* floor price and the listing price.
C10_UndercutAtOrAboveThreshold ==
    (call.op = "isUndercut" /\ call.slug \in DOMAIN floors) =>
        LET f == floors[call.slug].price
            l == NormalizedPrice(call.event)
            t == call.threshold
            v == call.verdict
        IN /\ v.floorPrice = f
           /\ v.listingPrice = l
           /\ f > 0 => (v.isUndercut <=> 100 * l <= (100 - t) * f)
           /\ f > 0 => v.percentBelow.num * f = (f - l) * 100 * v.percentBelow.den
           /\ f = 0 => ~v.isUndercut
           /\ (f = OneToken /\ t = 5 /\ 100 * l = 94 * OneToken) =>
                  v.isUndercut /\ v.percentBelow.num = 6 * v.percentBelow.den
           /\ (f = OneToken /\ t = 5 /\ 100 * l = 95 * OneToken) => v.isUndercut
           /\ (f = OneToken /\ t = 5 /\ 100 * l = 96 * OneToken) =>
                  ~v.isUndercut /\ v.percentBelow.num = 4 * v.percentBelow.den

\* isUndercut was called with threshold 5 for a listing at 0.95 against a floor of
\* 1.0: exactly 5 % below, flagged.
C10_Witness ==
    /\ call.op = "isUndercut" /\ call.slug \in DOMAIN floors
    /\ floors[call.slug].price = OneToken
    /\ call.threshold = 5
    /\ 100 * NormalizedPrice(call.event) = 95 * OneToken
    /\ call.verdict.isUndercut

\* What an updateFloor call does to the floors: a record is written exactly when
\* none exists or the price is strictly lower, the call returns true exactly
\* then, and every other record, and on false the whole state, is left alone.
UpdateFloorFrame ==
    call'.op = "updateFloor" =>
        LET s == call'.slug
            e == call'.event
            lower == s \notin DOMAIN floors \/ NormalizedPrice(e) < floors[s].price
        IN /\ call'.updated <=> lower
           /\ call'.updated <=> floors' # floors
           /\ call'.updated => /\ DOMAIN floors' = DOMAIN floors \cup {s}
                               /\ floors'[s].price = NormalizedPrice(e)
                               /\ floors'[s].priceUSD = NormalizedPrice(e) * e.usd_price
                               /\ floors'[s].timestamp = e.event_timestamp
                               /\ floors'[s].tokenSymbol = e.symbol
           /\ \A o \in DOMAIN floors \ {s} : floors'[o] = floors[o]

\* Every record is the record of one event, the first one that reached the
\* lowest price applied to the collection since it was last cleared.
FloorFromEarliestMinimum ==
    \A s \in Slugs :
        /\ (s \in DOMAIN floors) <=> (origin[s] # {})
        /\ \A e \in origin[s] : floors[s] = FloorDataOf(e)

\* C11: updateFloor returns true exactly when it changed the record: it writes
\* the record when none exists or the normalized price is strictly lower, and for
\* an equal or higher price leaves the whole record untouched and returns false;
\* so the four fields of a record always come from one event, the earliest one
\* that reached the current minimum price.
C11_UpdateFloorFrame == [][UpdateFloorFrame]_vars /\ []FloorFromEarliestMinimum

\* A listing at the price of the floor, with another timestamp, was refused and
\* the record still carries the timestamp of the earlier event.
C11_Witness ==
    /\ call.op = "updateFloor" /\ ~call.updated
    /\ call.slug \in DOMAIN floors
    /\ floors[call.slug].price = NormalizedPrice(call.event)
    /\ floors[call.slug].timestamp # call.event.event_timestamp
    /\ floors[call.slug].price > 0

\* ------------------------------------------- further claims on the monitor

\* The positions of the alerts of a type among the alerts a call produced.
AlertsOf(h, type) == {k \in 1..Len(h.alerts) : h.alerts[k].type = type}

\* The listing price of the call crosses both configured price bounds.
CrossesBothBounds(h) ==
    /\ h.settings.enablePriceTriggerAlerts
    /\ \E b \in h.settings.priceAlertMin : NormalizedPrice(h.event) < b
    /\ \E b \in h.settings.priceAlertMax : NormalizedPrice(h.event) > b

\* C12: with price-trigger alerts enabled and a listing price below priceAlertMin
\* and above priceAlertMax, exactly one price-trigger alert is produced and its
\* reason is the one of the max bound.
C12_MaxReasonWins ==
    \A h \in Calls :
        CrossesBothBounds(h) =>
            /\ Cardinality(AlertsOf(h, "price_alert")) = 1
            /\ \A k \in AlertsOf(h, "price_alert") : h.alerts[k].reason = "Above max"

\* A listing between max and min was handled to the end, its alert delivered.
C12_Witness ==
    /\ last.pc = "done"
    /\ CrossesBothBounds(last)
    /\ Logged(last, "resolved", "telegram")
    /\ Logged(last, "addEvent", "price_alert")

\* C13: a call produces a floor-update alert exactly when its updateFloor returned
\* true and enableFloorUpdateAlerts of its settings is not false (unset counts as
\* enabled); there is at most one, it carries the new floor price and the token
\* symbol, and the alert mode plays no part.
C13_FloorUpdateAlert ==
    \A h \in Calls :
        /\ Produced(h, "floor_update") <=>
              (Logged(h, "updateFloor", "true")
               /\ h.settings.enableFloorUpdateAlerts # {FALSE})
        /\ Cardinality(AlertsOf(h, "floor_update")) <= 1
        /\ \A k \in AlertsOf(h, "floor_update") :
              /\ h.alerts[k].floorPrice = NormalizedPrice(h.event)
              /\ h.alerts[k].tokenSymbol = h.event.symbol
              /\ h.event.slug \in DOMAIN floors
              /\ (h.id = applied[Len(applied)]) =>
                     floors[h.event.slug].price = h.alerts[k].floorPrice

\* With enableFloorUpdateAlerts unset, the second listing lowered the floor in
\* price-trigger mode after its price alert was delivered, and the floor-update
\* alert was produced.
C13_Witness ==
    /\ last.pc = "done" /\ last.id = 2
    /\ last.settings.enableFloorUpdateAlerts = {}
    /\ last.settings.enablePriceTriggerAlerts
    /\ Produced(last, "price_alert")
    /\ Produced(last, "floor_update")

\* The same in the undercut mode, after an undercut alert.
C13_WitnessLegacy ==
    /\ last.pc = "done" /\ last.id = 2
    /\ last.settings.enableFloorUpdateAlerts = {}
    /\ ~last.settings.enablePriceTriggerAlerts
    /\ Produced(last, "undercut")
    /\ Produced(last, "floor_update")

\* -------------------------------- FloorTracker and a caller of getAllFloors

\* getAllFloors: { ...this.floors }, a new object with the tracker's keys, each
\* key bound to the record object the tracker itself holds.
getAllFloors(fl) == [held |-> TRUE, copy |-> fl, shared |-> DOMAIN fl]

TGetAllFloors_Drains ==
    /\ ncalls < MaxCalls
    /\ snapshot' = getAllFloors(floors)
    /\ floors' = NoFloors
    /\ call' = [NoCall EXCEPT !.op = "getAllFloors"]
    /\ ncalls' = ncalls + 1
    /\ UNCHANGED <<seen, origin>>
    /\ UNCHANGED monitorVars

TGetAllFloors ==
    /\ ncalls < MaxCalls
    /\ snapshot' = getAllFloors(floors)
    /\ call' = [NoCall EXCEPT !.op = "getAllFloors"]
    /\ ncalls' = ncalls + 1
    /\ UNCHANGED <<floors, seen, origin>>
    /\ UNCHANGED monitorVars

\* The caller deletes a key of the object it got.
TSnapshotDeleteKey(slug) ==
    /\ ncalls < MaxCalls
    /\ snapshot.held /\ slug \in DOMAIN snapshot.copy
    /\ snapshot' = [snapshot EXCEPT
                      !.copy = [s \in DOMAIN snapshot.copy \ {slug} |-> snapshot.copy[s]],
                      !.shared = @ \ {slug}]
    /\ call' = [NoCall EXCEPT !.op = "snapshot.delete", !.slug = slug]
    /\ ncalls' = ncalls + 1
    /\ UNCHANGED <<floors, seen, origin>>
    /\ UNCHANGED monitorVars

\* The caller binds a key of the object it got to a record of its own.
TSnapshotSetKey(slug, e) ==
    /\ ncalls < MaxCalls
    /\ snapshot.held
    /\ snapshot' = [snapshot EXCEPT
                      !.copy = [s \in DOMAIN snapshot.copy \cup {slug} |->
                                  IF s = slug THEN FloorDataOf(e) ELSE snapshot.copy[s]],
                      !.shared = @ \ {slug}]
    /\ call' = [NoCall EXCEPT !.op = "snapshot.set", !.slug = slug, !.event = e]
    /\ ncalls' = ncalls + 1
    /\ UNCHANGED <<floors, seen, origin>>
    /\ UNCHANGED monitorVars

\* The caller assigns the price field of a record of the object it got: the
\* assignment lands in the record object, whoever else holds it.
TSnapshotSetPrice(slug, p) ==
    /\ ncalls < MaxCalls
    /\ snapshot.held /\ slug \in DOMAIN snapshot.copy
    /\ snapshot' = [snapshot EXCEPT !.copy[slug].price = p]
    /\ floors' = IF slug \in snapshot.shared
                 THEN [floors EXCEPT ![slug].price = p]
                 ELSE floors
    /\ call' = [NoCall EXCEPT !.op = "snapshot.price", !.slug = slug]
    /\ ncalls' = ncalls + 1
    /\ UNCHANGED <<seen, origin>>
    /\ UNCHANGED monitorVars

\* The prices a caller writes into a record it got.
CallerPrices == {Hundredths(50), Hundredths(200)}

NextSnapshot ==
    \/ \E slug \in Slugs, e \in UndercutEvents : TUpdateFloor(slug, e)
    \/ \E slug \in Slugs : TClearFloor(slug)
    \/ TGetAllFloors
    \/ \E slug \in Slugs : TSnapshotDeleteKey(slug)
    \/ \E slug \in Slugs, e \in UndercutEvents : TSnapshotSetKey(slug, e)
    \/ \E slug \in Slugs, p \in CallerPrices : TSnapshotSetPrice(slug, p)

SpecSnapshot == InitTracker /\ [][NextSnapshot]_vars

CallerMutation == {"snapshot.delete", "snapshot.set", "snapshot.price"}

\* C14: nothing a caller does to the object getAllFloors returned, adding or
\* deleting a key or assigning a field of a record, changes the tracker's floors.
C14_SnapshotIsolated == [][call'.op \in CallerMutation => floors' = floors]_vars

\* The part that holds: adding and deleting keys of the returned object leaves
\* the tracker's floors alone.
SnapshotKeysIsolated ==
    [][call'.op \in {"snapshot.delete", "snapshot.set"} => floors' = floors]_vars

\* ------------------------------------------------ claims on the channels

\* A settled call attempted the alert of a type on every enabled channel.
OnEveryChannel(h, type) ==
    /\ Logged(h, "console", type)
    /\ DiscordEnabled(config.notifications) => Logged(h, "discord", type)
    /\ TelegramEnabled(config.notifications) => Logged(h, "telegram", type)

\* C15: every alert a handled event produced, the floor-update alert included, was
\* attempted on the console, on Discord when a webhook is configured and on
\* Telegram when token and chat id are configured.
C15_EveryAlertOnEveryChannel ==
    \A h \in Calls :
        Settled(h) => \A k \in 1..Len(h.alerts) : OnEveryChannel(h, h.alerts[k].type)

\* What holds: the undercut and price-trigger alerts of a call none of whose sends
\* failed were attempted on every enabled channel.
ThresholdAlertsOnEveryChannel ==
    \A h \in Calls :
        (Settled(h) /\ ~SendFailed(h)) =>
            \A k \in 1..Len(h.alerts) :
                h.alerts[k].type # "floor_update" => OnEveryChannel(h, h.alerts[k].type)

\* The call made a request to, or had a failure on, the channel.
Touched(h, ch) ==
    \E k \in 1..Len(h.log) :
        /\ h.log[k][1] \in {ch, "error", "rejected", "resolved"}
        /\ h.log[k][1] = ch \/ h.log[k][2] = ch

\* C16: for undercut and price-trigger alerts a request goes to Discord only with
\* a webhook configured and to Telegram only with both token and chat id
\* configured; a channel without credentials is skipped without error or
\* rejection, and every alert is written to the console whatever is configured.
C16_ChannelsNeedCredentials ==
    \A h \in Calls :
        /\ Touched(h, "discord") => config.notifications.discordWebhook
        /\ Touched(h, "telegram") =>
              (config.notifications.telegramBotToken /\ config.notifications.telegramChatId)
        /\ (~config.notifications.discordWebhook
            /\ ~(config.notifications.telegramBotToken /\ config.notifications.telegramChatId))
              => (h.pc \notin {"rejected", "await_discord", "await_telegram"}
                  /\ ~SendFailed(h))
        /\ \A k \in 1..Len(h.alerts) : Logged(h, "console", h.alerts[k].type)

\* With a bot token and no chat id, and no webhook, an undercut alert was
\* produced and the call ran to its end without any request.
C16_Witness ==
    /\ config.notifications.telegramBotToken
    /\ ~config.notifications.telegramChatId
    /\ ~config.notifications.discordWebhook
    /\ last.pc = "done"
    /\ Produced(last, "undercut")
    /\ Logged(last, "console", "undercut")
    /\ Logged(last, "updateFloor", "true")

\* C17: the sends of one alert run side by side: while the Discord request of an
\* alert is still pending, the Telegram request of the same alert has been made.
C17_TelegramNotDelayedByDiscord ==
    \A h \in Calls :
        (h.pc = "await_discord" /\ TelegramEnabled(config.notifications)) =>
            Logged(h, "telegram", h.alert)

\* The requests a call made to a channel for alerts of a type.
Requests(h, ch, type) == {k \in 1..Len(h.log) : h.log[k] = <<ch, type>>}

\* C18: an alert causes at most one request per channel, and a failed request is
\* followed by nothing: no second attempt, for any outcomes.
C18_NoRetry ==
    \A h \in Calls :
        /\ \A ch \in {"discord", "telegram"} :
           \A type \in {"undercut", "price_alert", "floor_update"} :
              Cardinality(Requests(h, ch, type)) <= Cardinality(AlertsOf(h, type))
        /\ \A k \in 1..Len(h.log) :
              h.log[k][1] = "error" =>
                  /\ k + 1 = Len(h.log)
                  /\ h.log[k + 1] = <<"rejected", h.log[k][2]>>

\* The Telegram request of an alert failed after its Discord request succeeded.
C18_Witness ==
    /\ last.pc = "rejected"
    /\ Logged(last, "resolved", "discord")
    /\ Logged(last, "error", "telegram")
    /\ Cardinality(Requests(last, "telegram", last.alert)) = 1

\* What the request of handler i ending with r leads to: on a status in 200..299
\* the send resolves and nothing is logged as failed; on any other status, a
\* missing one (0) included, and on a transport error the failure is logged and
\* the send is rejected.
OutcomeReported(i, r) ==
    LET h == handlers[i]
        ch == IF h.pc = "await_discord" THEN "discord" ELSE "telegram"
        after == Resume([floors |-> floors, applied |-> applied, h |-> h], config, r).h
        new == SubSeq(after.log, Len(h.log) + 1, Len(after.log))
        ok == r.kind = "response" /\ r.statusCode \in 200..299
    IN /\ after.id = i /\ Len(after.log) > Len(h.log)
       /\ ok => (new[1] = <<"resolved", ch>> /\ ~SendFailed(after))
       /\ ~ok => (new = << <<"error", ch>>, <<"rejected", ch>> >> /\ after.pc = "rejected")

\* C19: a channel send succeeds exactly when the response status is in 200..299;
\* every other status, a missing status and every transport error is logged and
\* makes the send a rejected one: so it is for every pending request and every
\* way it can end.
C19_SuccessIsExactly2xx ==
    \A i \in DOMAIN handlers : \A r \in Responses : OutcomeReported(i, r)

\* A request was answered without a usable 2xx: the failure is logged and the
\* send rejected, after the Discord request of the same alert had resolved.
C19_Witness ==
    /\ last.pc = "rejected"
    /\ Logged(last, "resolved", "discord")
    /\ Logged(last, "error", "telegram")
    /\ Logged(last, "rejected", "telegram")
    /\ last.id = 2

\* ------------------------------------------------ claims on the settings

\* C20: every settings-driven decision for an event uses the settings as they
\* are when the event arrives, the undercut threshold included: the verdict on a
\* listing against a positive floor is "undercut" exactly when the percentage
\* below the floor reaches undercutThresholdPercent of the event's settings.
C20_ThresholdFromCurrentSettings ==
    \A h \in Calls :
        \A v \in h.verdict :
            v.floorPrice > 0 =>
                (v.isUndercut <=>
                    QuotientGE(v.percentBelow, h.settings.undercutThresholdPercent))

\* What holds: the threshold applied is the one copied at construction.
ThresholdFromConstruction ==
    \A h \in Calls :
        \A v \in h.verdict :
            v.floorPrice > 0 =>
                (v.isUndercut <=> QuotientGE(v.percentBelow, config.undercutThresholdPercent))

\* ------------------------------------------- further claims on FloorTracker

\* The records, and the absence of records, of all collections but s are the same
\* before and after the step.
OthersUnchanged(s) ==
    \A o \in Slugs \ {s} :
        /\ (o \in DOMAIN floors') <=> (o \in DOMAIN floors)
        /\ o \in DOMAIN floors => floors'[o] = floors[o]

\* C21: an updateFloor call on a collection leaves the record, or the absence of
\* a record, of every other collection as it was, whatever it returns.
C21_UpdateFloorTouchesOneCollection ==
    [][call'.op = "updateFloor" => OthersUnchanged(call'.slug)]_vars

\* updateFloor set the floor of one collection while the other one has a record
\* of another price; and the same for a call that returned false.
C21_Witness ==
    /\ call.op = "updateFloor" /\ call.updated
    /\ DOMAIN floors = Slugs
    /\ \A o \in Slugs \ {call.slug} : floors[o].price # floors[call.slug].price

C21_WitnessRefused ==
    /\ call.op = "updateFloor" /\ ~call.updated
    /\ DOMAIN floors = Slugs
    /\ \A o \in Slugs \ {call.slug} : floors[o].price # floors[call.slug].price

\* What clearFloor leaves behind and what the next call on the collection does.
ClearFloorStep ==
    /\ call'.op = "clearFloor" =>
          /\ call'.slug \notin DOMAIN floors'
          /\ getFloor(floors', call'.slug) = {}
          /\ OthersUnchanged(call'.slug)
          /\ call'.slug \notin DOMAIN floors => floors' = floors
    /\ (call.op = "clearFloor" /\ call'.slug = call.slug) =>
          /\ call'.op = "isUndercut" =>
                (~call'.verdict.isUndercut /\ call'.verdict.floorPrice = 0)
          /\ call'.op = "updateFloor" =>
                /\ call'.updated
                /\ floors'[call'.slug] = FloorDataOf(call'.event)

\* C22: clearFloor(c) removes the record of c and touches no other collection;
\* afterwards getFloor(c) is absent, isUndercut(c, ...) answers not-undercut with
\* floorPrice 0 and the next updateFloor(c, e) returns true and sets the floor to
\* the price of e, a higher one than the cleared floor included; on a collection
\* without a record clearFloor changes nothing.
C22_ClearFloorResets == [][ClearFloorStep]_vars

\* A record was removed while the other collection kept its own.
C22_Witness ==
    /\ call.op = "clearFloor" /\ call.updated
    /\ DOMAIN floors = Slugs \ {call.slug}

\* clearFloor was called on a collection that has no record.
C22_WitnessNoRecord ==
    /\ call.op = "clearFloor" /\ ~call.updated
    /\ DOMAIN floors # {}

\* ------------------------------------------- claims on the alert decisions

\* A bound of the settings is crossed by the price: strictly, and never an unset one.
BoundCrossed(st, price) ==
    \/ st.priceAlertMin # {} /\ \A b \in st.priceAlertMin : price < b
    \/ st.priceAlertMax # {} /\ \A b \in st.priceAlertMax : price > b

\* C23: with price-trigger alerts enabled an event produces a price-trigger
\* alert exactly when its listing price is below a configured priceAlertMin or
\* above a configured priceAlertMax, strictly; a price equal to a bound and an
\* unset bound produce none, and no event produces two.
C23_PriceTriggerExactlyWhenCrossed ==
    \A h \in Calls :
        h.settings.enablePriceTriggerAlerts =>
            /\ Produced(h, "price_alert") <=>
                  BoundCrossed(h.settings, NormalizedPrice(h.event))
            /\ Cardinality(AlertsOf(h, "price_alert")) <= 1

\* A listing priced exactly at priceAlertMax, or at priceAlertMin, the other
\* bound unset, was handled without a price-trigger alert.
C23_Witness ==
    /\ last.pc = "done"
    /\ last.settings.enablePriceTriggerAlerts
    /\ last.settings.priceAlertMax = {NormalizedPrice(last.event)}
    /\ last.settings.priceAlertMin = {}
    /\ ~Produced(last, "price_alert")

C23_WitnessAtMin ==
    /\ last.pc = "done"
    /\ last.settings.enablePriceTriggerAlerts
    /\ last.settings.priceAlertMin = {NormalizedPrice(last.event)}
    /\ last.settings.priceAlertMax = {}
    /\ ~Produced(last, "price_alert")

\* A listing below priceAlertMin, priceAlertMax unset, produced the alert.
C23_WitnessBelowMin ==
    /\ last.pc = "done"
    /\ last.settings.enablePriceTriggerAlerts
    /\ last.settings.priceAlertMax = {}
    /\ Produced(last, "price_alert")

\* C24: with price-trigger alerts disabled an event produces an undercut alert
\* exactly when its verdict flags an undercut and the verdict's floor price is not
\* below a configured minFloorPrice and not above a configured maxFloorPrice; the
\* alert carries the listing price, floor price and percentage of the verdict.
C24_UndercutAlertWithinBand ==
    \A h \in Calls :
        ~h.settings.enablePriceTriggerAlerts =>
            /\ Produced(h, "undercut") <=>
                  \E v \in h.verdict :
                      v.isUndercut /\ ~OutsideBand(h.settings, v.floorPrice)
            /\ \A k \in AlertsOf(h, "undercut") : \A v \in h.verdict :
                  /\ h.alerts[k].listingPrice = v.listingPrice
                  /\ h.alerts[k].floorPrice = v.floorPrice
                  /\ h.alerts[k].percentBelow = v.percentBelow

\* The decisions a call takes after its first send follow its own snapshot of the
\* settings: whether the undercut block runs, whether the floor-update alert is
\* produced.
SnapshotDecides ==
    \A h \in Calls :
        /\ Produced(h, "floor_update") <=>
              (Logged(h, "updateFloor", "true")
               /\ FALSE \notin h.settings.enableFloorUpdateAlerts)
        /\ h.settings.enablePriceTriggerAlerts => (h.verdict = {} /\ ~Produced(h, "undercut"))
        /\ (~h.settings.enablePriceTriggerAlerts /\ Settled(h) /\ ~SendFailed(h)
            /\ ~Logged(h, "return", "filtered")) => h.verdict # {}

\* A step of the engine takes the snapshot of an arriving event from the store
\* as it is, never changes the snapshot of a call, and leaves the store alone.
EngineLeavesSettings ==
    /\ (arrived' # arrived \/ handlers' # handlers \/ last' # last \/ floors' # floors)
          => settings' = settings
    /\ arrived' # arrived =>
          (IF arrived' \in DOMAIN handlers' THEN handlers'[arrived'] ELSE last').settings
              = settings
    /\ \A i \in DOMAIN handlers :
          (IF i \in DOMAIN handlers' THEN handlers'[i] ELSE last').settings
              = handlers[i].settings

\* C25: every settings-driven decision of an event uses the snapshot taken when
\* its handling starts; a saveSettings made while the handler waits for a send
\* changes none of the event's remaining decisions, and the engine never writes
\* to the settings store.
C25_OneSnapshotPerEvent == []SnapshotDecides /\ [][EngineLeavesSettings]_vars

\* The store says floor-update alerts are off; a call that started when they were
\* on, and waited for a send, has produced its floor-update alert.
C25_Witness ==
    /\ last.pc = "done"
    /\ last.settings.enableFloorUpdateAlerts = {TRUE}
    /\ settings.enableFloorUpdateAlerts = {FALSE}
    /\ Logged(last, "resolved", "telegram")
    /\ Produced(last, "floor_update")

\* A call is waiting for a send while the store no longer equals its snapshot.
C25_WitnessSuspended ==
    \E i \in DOMAIN handlers :
        /\ handlers[i].settings.enableFloorUpdateAlerts = {TRUE}
        /\ settings.enableFloorUpdateAlerts = {FALSE}

\* C26: the verdict of an event is taken against the floor as it stood before the
\* event's own updateFloor: the first listing of a collection produces no
\* undercut alert, and with a threshold above 0 every event that produced an
\* undercut alert and was handled to the end has lowered the floor to its own
\* price.
C26_UndercutLowersFloor ==
    \A h \in Calls :
        /\ h.id = 1 => ~Produced(h, "undercut")
        /\ (config.undercutThresholdPercent > 0 /\ h.pc = "done"
            /\ Produced(h, "undercut")) => Logged(h, "updateFloor", "true")

\* What holds: the first listing of a collection produces no undercut alert, and
\* an event whose verdict is an undercut at a threshold above 0 is priced below
\* the floor of its verdict.
VerdictAgainstEarlierFloor ==
    \A h \in Calls :
        /\ h.id = 1 => ~Produced(h, "undercut")
        /\ \A v \in h.verdict :
              (config.undercutThresholdPercent > 0 /\ v.isUndercut)
                  => v.listingPrice < v.floorPrice

\* C27: against a positive floor and with a threshold of 0 or more, a listing
\* flagged as an undercut is priced at or below the floor and its percentage
\* below the floor is not negative; a listing above the floor is never flagged.
\* With threshold 0 a listing priced exactly at the floor is flagged, and
\* updateFloor for it returns false and leaves the floor alone.
C27_UndercutNeverAboveFloor ==
    (call.op = "isUndercut" /\ call.slug \in DOMAIN floors) =>
        LET f == floors[call.slug].price
            l == NormalizedPrice(call.event)
            v == call.verdict
        IN (f > 0 /\ call.threshold >= 0) =>
              /\ v.isUndercut => (l <= f /\ v.percentBelow.num >= 0 /\ v.percentBelow.den > 0)
              /\ l > f => ~v.isUndercut
              /\ (call.threshold = 0 /\ l = f) =>
                    /\ v.isUndercut
                    /\ ~updateFloor(floors, call.slug, call.event).ret
                    /\ updateFloor(floors, call.slug, call.event).floors = floors

\* isUndercut with threshold 0 flagged a listing priced exactly at a positive floor.
C27_Witness ==
    /\ call.op = "isUndercut" /\ call.slug \in DOMAIN floors
    /\ call.threshold = 0
    /\ floors[call.slug].price > 0
    /\ NormalizedPrice(call.event) = floors[call.slug].price
    /\ call.verdict.isUndercut

\* isUndercut with threshold 0 did not flag a listing priced above the floor.
C27_WitnessAbove ==
    /\ call.op = "isUndercut" /\ call.slug \in DOMAIN floors
    /\ call.threshold = 0
    /\ floors[call.slug].price > 0
    /\ NormalizedPrice(call.event) > floors[call.slug].price
    /\ ~call.verdict.isUndercut

\* ------------------------------------ FloorTracker, all five methods called

\* getFloor: updated tells whether a record was returned.
TGetFloor(slug) ==
    /\ ncalls < MaxCalls
    /\ call' = [NoCall EXCEPT !.op = "getFloor", !.slug = slug,
                              !.updated = getFloor(floors, slug) # {}]
    /\ ncalls' = ncalls + 1
    /\ UNCHANGED <<floors, seen, origin, snapshot>>
    /\ UNCHANGED monitorVars

NextMethods ==
    \/ \E slug \in Slugs, e \in UndercutEvents : TUpdateFloor(slug, e)
    \/ \E slug \in Slugs : TClearFloor(slug)
    \/ \E slug \in Slugs, e \in UndercutEvents, t \in Thresholds : TIsUndercut(slug, e, t)
    \/ \E slug \in Slugs : TGetFloor(slug)
    \/ TGetAllFloors

SpecMethods == InitTracker /\ [][NextMethods]_vars

ReadOnlyMethods == {"isUndercut", "getFloor", "getAllFloors"}

\* C28: a call of isUndercut, getFloor or getAllFloors leaves the record of every
\* collection as it was, wherever it comes in a sequence of calls; the floors
\* change in a call of updateFloor or clearFloor only.
C28_ReadsLeaveFloorsAlone ==
    [][/\ call'.op \in ReadOnlyMethods => floors' = floors
       /\ floors' # floors => call'.op \in {"updateFloor", "clearFloor"}]_vars

\* Every collection has a record, reads were made, the last one getAllFloors, and
\* what it returned is the floors as they are.
C28_Witness ==
    /\ call.op = "getAllFloors"
    /\ DOMAIN floors = Slugs
    /\ snapshot.held /\ snapshot.copy = floors
    /\ ncalls = MaxCalls

\* getFloor found a record, and isUndercut flagged a listing, the floor in place.
C28_WitnessGetFloor ==
    /\ call.op = "getFloor" /\ call.updated
    /\ call.slug \in DOMAIN floors

\* ------------------------------------------- listening and the dashboard

\* config.collections as loadConfig and the saved settings give it: the entries
\* of a comma separated list, trimmed, the empty ones dropped, nothing else
\* removed.
CollectionLists == {<<"c1">>, <<"c1", "c2">>, <<"c1", "c1">>}

\* WebServer.updateBotStatus: the fields of status replace those of botStatus,
\* the others stay.
updateBotStatus(b, status) ==
    [f \in DOMAIN b |-> IF f \in DOMAIN status THEN status[f] ELSE b[f]]

\* addEvent that makes room by dropping the entry it has just pushed.
addEvent_DropsNewest(b) ==
    [b EXCEPT !.lastEvents = IF Len(b.lastEvents) >= MaxLastEvents THEN b.lastEvents
                              ELSE Append(b.lastEvents, b.added + 1),
              !.added = b.added + 1]

\* WebServer.addEvent: push, then shift once when more than MaxLastEvents are
\* held.  An entry is the number of the addEvent call that pushed it.
addEvent(b) ==
    LET pushed == Append(b.lastEvents, b.added + 1)
    IN  [b EXCEPT !.lastEvents = IF Len(pushed) > MaxLastEvents THEN Tail(pushed)
                                  ELSE pushed,
                  !.added = b.added + 1]

\* What startListening and stopListening hand to updateBotStatus.
ListeningStatus(running) ==
    [isRunning |-> running, collections |-> listener.collections,
     floors |-> getAllFloors(floors).copy, lastEvents |-> <<>>]

\* subscribeToCollection for every entry of config.collections, in order, on
\* the client l holds.
subscribeAll(l) ==
    l.subs \o [i \in 1..Len(l.collections) |->
                  [client |-> l.client, slug |-> l.collections[i]]]

startListening(l) ==
    IF l.isListening
    THEN l
    ELSE [l EXCEPT !.subs = subscribeAll(l), !.isListening = TRUE]

\* stopListening disconnects the client, which ends its subscriptions, and
\* constructs another one.
stopListening(l) ==
    IF ~l.isListening
    THEN l
    ELSE [l EXCEPT !.isListening = FALSE, !.client = l.client + 1]

StartListening ==
    /\ listener.calls < MaxToggles
    /\ listener' = [startListening(listener) EXCEPT !.op = "start",
                                                     !.calls = listener.calls + 1]
    /\ web' = IF listener.isListening THEN web
              ELSE updateBotStatus(web, ListeningStatus(TRUE))
    /\ UNCHANGED trackerVars
    /\ UNCHANGED <<settings, config, handlers, last, arrived, applied, saves>>

StopListening ==
    /\ listener.calls < MaxToggles
    /\ listener' = [stopListening(listener) EXCEPT !.op = "stop",
                                                    !.calls = listener.calls + 1]
    /\ web' = IF ~listener.isListening THEN web
              ELSE updateBotStatus(web, ListeningStatus(FALSE))
    /\ UNCHANGED trackerVars
    /\ UNCHANGED <<settings, config, handlers, last, arrived, applied, saves>>

\* An addEvent call of a listing handler; at most n are taken.
AddEventUpTo(n) ==
    /\ web.added < n
    /\ web' = addEvent(web)
    /\ UNCHANGED trackerVars
    /\ UNCHANGED <<settings, config, handlers, last, arrived, applied, saves, listener>>

InitListening ==
    /\ floors = NoFloors
    /\ seen = [s \in Slugs |-> {}]
    /\ origin = [s \in Slugs |-> {}]
    /\ snapshot = NoSnapshot
    /\ call = NoCall
    /\ ncalls = 0
    /\ settings = DefaultSettings
    /\ config = [undercutThresholdPercent |-> 0, notifications |-> NoNotifications]
    /\ handlers = NoHandlers
    /\ last = NoHandler
    /\ arrived = 0
    /\ applied = <<>>
    /\ saves = 0
    /\ listener \in {[NoListener EXCEPT !.collections = c] : c \in CollectionLists}
    /\ web = NoBotStatus

NextListening ==
    \/ StartListening
    \/ StopListening
    \/ AddEventUpTo(MaxListenedEvents)

SpecListening == InitListening /\ [][NextListening]_vars

\* Listing subscriptions for slug on the client l holds.
CurrentSubscriptions(l, slug) ==
    {i \in DOMAIN l.subs : l.subs[i].client = l.client /\ l.subs[i].slug = slug}

Configured(l) == {l.collections[i] : i \in DOMAIN l.collections}

\* The call that made the step was a no-op.
ListeningUntouched ==
    /\ listener'.isListening = listener.isListening
    /\ listener'.client = listener.client
    /\ listener'.subs = listener.subs
    /\ web' = web

\* A startListening or stopListening call: a no-op when the monitor is already
\* in the state asked for; otherwise start subscribes on the client held and
\* stop leaves the monitor with a client no subscription was ever made on.
ListeningStep ==
    listener'.calls # listener.calls =>
        /\ listener'.op = "start" /\ listener.isListening => ListeningUntouched
        /\ listener'.op = "stop" /\ ~listener.isListening => ListeningUntouched
        /\ listener'.op = "start" /\ ~listener.isListening =>
              /\ listener'.isListening
              /\ listener'.client = listener.client
              /\ \A slug \in Configured(listener) :
                    CurrentSubscriptions(listener', slug) # {}
              /\ web'.isRunning
        /\ listener'.op = "stop" /\ listener.isListening =>
              /\ ~listener'.isListening
              /\ listener'.client # listener.client
              /\ \A i \in DOMAIN listener'.subs :
                    listener'.subs[i].client # listener'.client
              /\ ~web'.isRunning

\* Listening exactly when the client held carries the subscriptions, and the
\* dashboard says so.
ListeningMatchesSubscriptions ==
    /\ listener.isListening <=>
          \E slug \in Slugs : CurrentSubscriptions(listener, slug) # {}
    /\ web.isRunning = listener.isListening
    /\ (listener.op = "none") => ~listener.isListening

OneSubscriptionPerCollection ==
    \A slug \in Slugs : Cardinality(CurrentSubscriptions(listener, slug)) <= 1

\* The subscriptions on the client held are those of one pass over
\* config.collections: one for each entry of the list.
OneSubscriptionPerEntry ==
    Cardinality({i \in DOMAIN listener.subs : listener.subs[i].client = listener.client})
        = IF listener.isListening THEN Len(listener.collections) ELSE 0

ListeningToggles == []ListeningMatchesSubscriptions /\ [][ListeningStep]_vars

\* C29: startListening while listening and stopListening while stopped change
\* nothing (no subscription, no disconnect, no status update); the monitor is
\* listening exactly when its last effective call was startListening; every
\* collection has at most one listing subscription on the client held; a start
\* after a stop subscribes again on a newly made client.
C29_ListeningState ==
    /\ []ListeningMatchesSubscriptions
    /\ []OneSubscriptionPerCollection
    /\ [][ListeningStep]_vars

\* Started again after a stop: the subscriptions are on the second client.
C29_WitnessRestarted ==
    /\ listener.isListening /\ listener.client = 1
    /\ listener.op = "start"

\* A second startListening while listening.
C29_WitnessRepeatedStart ==
    /\ listener.isListening /\ listener.client = 0
    /\ listener.op = "start" /\ listener.calls = 2

\* ------------------------------------------------------ dashboard events

\* GET /api/events: lastEvents.slice(-50).
EventsResponse(b) ==
    LET n == Len(b.lastEvents)
    IN  SubSeq(b.lastEvents, IF n > EventsPage THEN n - EventsPage + 1 ELSE 1, n)

\* The floors the monitor hands to the dashboard.
DashboardFloors ==
    {NoFloors} \cup
    {[s \in MonitorSlugs |-> FloorDataOf(e)] :
        e \in {m \in MonitorEvents : m.base_price = Hundredths(100)}}

\* The arguments of the monitor's updateBotStatus calls: the floors after a floor
\* update, and the whole status with an empty lastEvents on start and on stop.
DashboardStatuses ==
    {[floors |-> f] : f \in DashboardFloors} \cup
    {[isRunning |-> r, collections |-> NoListener.collections, floors |-> f,
      lastEvents |-> <<>>] : r \in BOOLEAN, f \in DashboardFloors}

UpdateBotStatus(status) ==
    /\ web' = updateBotStatus(web, status)
    /\ UNCHANGED trackerVars
    /\ UNCHANGED <<settings, config, handlers, last, arrived, applied, saves, listener>>

NextDashboard ==
    \/ AddEventUpTo(MaxAdds)
    \/ \E status \in DashboardStatuses : UpdateBotStatus(status)

SpecDashboard == InitTracker /\ [][NextDashboard]_vars

\* lastEvents holds consecutive arrivals up to the latest one, oldest first.
InArrivalOrder(b) ==
    /\ \A i \in 1..(Len(b.lastEvents) - 1) : b.lastEvents[i + 1] = b.lastEvents[i] + 1
    /\ b.lastEvents # <<>> => b.lastEvents[Len(b.lastEvents)] = b.added

\* The response is the end of lastEvents, EventsPage entries of it at most.
MostRecentPage(b) ==
    LET n == Len(b.lastEvents)
        r == EventsResponse(b)
    IN  /\ Len(r) = IF n < EventsPage THEN n ELSE EventsPage
        /\ \A k \in 1..Len(r) : r[k] = b.lastEvents[n - Len(r) + k]

EventsBounded ==
    /\ Len(web.lastEvents) <= MaxLastEvents
    /\ InArrivalOrder(web)
    /\ MostRecentPage(web)

\* An addEvent call appends the event, and when the list is full the oldest
\* entry goes; an updateBotStatus call that does not carry lastEvents leaves
\* the list as it is.
EventsStep ==
    /\ web'.added # web.added =>
          web'.lastEvents =
              IF Len(web.lastEvents) = MaxLastEvents
              THEN Append(Tail(web.lastEvents), web'.added)
              ELSE Append(web.lastEvents, web'.added)
    /\ web'.added = web.added =>
          web'.lastEvents \in {web.lastEvents, <<>>}

\* C30: whatever addEvent and updateBotStatus calls the monitor makes, lastEvents
\* holds at most 100 entries in arrival order, an addEvent on a full list drops
\* the oldest entry, and the events endpoint answers with the most recent
\* entries, 50 at most.
C30_LastEventsBounded == []EventsBounded /\ [][EventsStep]_vars

\* The list is full, its two oldest arrivals were dropped, and the endpoint
\* answers with the later half.
C30_Witness ==
    /\ Len(web.lastEvents) = MaxLastEvents
    /\ web.lastEvents[1] = web.added - MaxLastEvents + 1
    /\ web.added > MaxLastEvents
    /\ Len(EventsResponse(web)) = EventsPage
    /\ EventsResponse(web)[1] = web.added - EventsPage + 1

\* Events arrived, a start or stop emptied the list, later events are listed.
C30_WitnessEmptied ==
    /\ web.lastEvents # <<>>
    /\ web.lastEvents[1] > 1
    /\ Len(web.lastEvents) < MaxLastEvents
    /\ web.isRunning

====
